---- MODULE Spec2Model ----
(***************************************************************************)
(* Model of harbor_clear (src/main.py): the HarborClient result envelopes, *)
(* the two tag filters and the command-line driver that resolves a tag     *)
(* list, filters it and deletes the surviving tags.                        *)
(*                                                                         *)
(* Python strings that the code slices or matches (a tag's 'created' and   *)
(* 'name', a regular expression) are sequences of one-character strings.   *)
(* A UTC instant is the tuple <<year, month, day, hour, minute, second,    *)
(* microsecond, nanosecond>>; instants are ordered lexicographically.      *)
(***************************************************************************)
EXTENDS Integers, Sequences, FiniteSets, TLC

VARIABLES
    f_in,        \* filters: the tag list given to the filters
    f_date_to,   \* filters: date_to argument (None or an instant)
    f_date_from, \* filters: date_from argument (None or an instant)
    f_regex,     \* filters: regex_str argument
    f_res,       \* filters: result of the filters applied so far
    f_order,     \* filters: the filters applied so far, in order
    args,        \* driver: the parsed command line
    registry,    \* driver: the remote registry, repository name -> tag list
    pc,          \* driver: position in __main__
    repo_name,   \* driver: variable repo_name
    proj_id,     \* driver: variable proj_id
    repos,       \* driver: variable repos
    idx,         \* driver: position of the loop over repos / over tags
    tags,        \* driver: variable tags
    requests,    \* driver: HTTP requests issued, with the response received
    exit,        \* driver: how the process ended
    log          \* driver: records written to the logger

vars == <<f_in, f_date_to, f_date_from, f_regex, f_res, f_order,
          args, registry, pc, repo_name, proj_id, repos, idx, tags, requests, exit, log>>

f_vars == <<f_in, f_date_to, f_date_from, f_regex, f_res, f_order>>

d_vars == <<args, registry, pc, repo_name, proj_id, repos, idx, tags, requests, exit, log>>

\* ---------------------------------------------------------------- bounds

MaxTags == 2

MaxRepos == 2

\* ------------------------------------------------------- python values

\* None where a sequence or an instant is expected (a bound, a parsed
\* timestamp, regex_str)
None == <<>>

\* no exception raised
NoExc == "none"

\* a command-line string handed over unparsed (args.data_to, args.data_from)
StrArg == <<"str">>

Min(a, b) == IF a < b THEN a ELSE b

\* s[:-1]
DropLast(s) == SubSeq(s, 1, Len(s) - 1)

\* s.ljust(w, c)
Ljust(s, w, c) == IF Len(s) >= w THEN s ELSE s \o [i \in 1..(w - Len(s)) |-> c]

\* s[a:b] for 0 <= a <= b
Slice(s, a, b) == SubSeq(s, a + 1, Min(b, Len(s)))

\* ---------------------------------------------------- pandas Timestamp

IsDigit(c) == c \in {"0", "1", "2", "3", "4", "5", "6", "7", "8", "9"}

DigitVal(c) ==
    CASE c = "0" -> 0 [] c = "1" -> 1 [] c = "2" -> 2 [] c = "3" -> 3
      [] c = "4" -> 4 [] c = "5" -> 5 [] c = "6" -> 6 [] c = "7" -> 7
      [] c = "8" -> 8 [] c = "9" -> 9

RECURSIVE Num(_)
Num(s) == IF s = <<>> THEN 0 ELSE 10 * Num(DropLast(s)) + DigitVal(s[Len(s)])

AllDigits(s) == \A i \in 1..Len(s) : IsDigit(s[i])

\* a < b on instants
TsLess(a, b) ==
    \E i \in 1..8 : a[i] < b[i] /\ \A j \in 1..(i - 1) : a[j] = b[j]

TsLeq(a, b) == a = b \/ TsLess(a, b)

\* pd.Timestamp.max.tz_localize('UTC'): 2262-04-11 23:47:16.854775807
TsMax == <<2262, 4, 11, 23, 47, 16, 854775, 807>>

\* pd.Timestamp.min.tz_localize('UTC'): 1677-09-21 00:12:43.145224193
TsMin == <<1677, 9, 21, 0, 12, 43, 145224, 193>>

IsLeap(y) == (y % 4 = 0 /\ y % 100 # 0) \/ y % 400 = 0

DaysIn(y, m) ==
    IF m = 2 THEN (IF IsLeap(y) THEN 29 ELSE 28)
    ELSE IF m \in {4, 6, 9, 11} THEN 30 ELSE 31

\* pd.Timestamp(s, tz='UTC') on the 26 characters 'YYYY-MM-DDTHH:MM:SS.ffffff'
\* that line 96 builds; None stands for the exception the except clause catches
\* (malformed text, a field out of range, an instant outside [TsMin, TsMax]).
pd_Timestamp(s) ==
    IF \/ Len(s) # 26
       \/ ~AllDigits(Slice(s, 0, 4)) \/ s[5] # "-"
       \/ ~AllDigits(Slice(s, 5, 7)) \/ s[8] # "-"
       \/ ~AllDigits(Slice(s, 8, 10)) \/ s[11] # "T"
       \/ ~AllDigits(Slice(s, 11, 13)) \/ s[14] # ":"
       \/ ~AllDigits(Slice(s, 14, 16)) \/ s[17] # ":"
       \/ ~AllDigits(Slice(s, 17, 19)) \/ s[20] # "."
       \/ ~AllDigits(Slice(s, 20, 26))
    THEN None
    ELSE LET y  == Num(Slice(s, 0, 4))
             mo == Num(Slice(s, 5, 7))
             d  == Num(Slice(s, 8, 10))
             h  == Num(Slice(s, 11, 13))
             mi == Num(Slice(s, 14, 16))
             se == Num(Slice(s, 17, 19))
             us == Num(Slice(s, 20, 26))
             t  == <<y, mo, d, h, mi, se, us, 0>>
         IN  IF /\ mo \in 1..12 /\ d \in 1..DaysIn(y, mo)
                /\ h \in 0..23 /\ mi \in 0..59 /\ se \in 0..59
                /\ TsLeq(TsMin, t) /\ TsLeq(t, TsMax)
             THEN t ELSE None

\* ------------------------------------------- get_repos_tags_by_created_range

\* lines 95-96: drop the zone marker, pad to 26, force '.' at index 19 and keep
\* six fractional digits
created_timestamp(created) ==
    LET t == Ljust(DropLast(created), 26, "0")
    IN  Slice(t, 0, 19) \o <<".">> \o Slice(t, 20, 26)

tag_created_date(tag) == pd_Timestamp(created_timestamp(tag.created))

\* line 103 with an inclusive upper bound
InRangeInclusive(created_date_to, created_date_from, t) ==
    IF created_date_to = StrArg THEN "TypeError"
    ELSE IF ~TsLeq(t, created_date_to) THEN "no"
    ELSE IF created_date_from = StrArg THEN "TypeError"
    ELSE IF TsLeq(created_date_from, t) THEN "yes" ELSE "no"

\* line 103: created_date_to > tag_created_date and created_date_from <=
\* tag_created_date, evaluated left to right; comparing a Timestamp with a str
\* raises TypeError
InRange(created_date_to, created_date_from, t) ==
    IF created_date_to = StrArg THEN "TypeError"
    ELSE IF ~TsLess(t, created_date_to) THEN "no"
    ELSE IF created_date_from = StrArg THEN "TypeError"
    ELSE IF TsLeq(created_date_from, t) THEN "yes" ELSE "no"

\* the loop body with the except clause falling through to the append
KeepTagNoSkip(tag, created_date_to, created_date_from) ==
    LET t == tag_created_date(tag)
    IN  IF t = None THEN "yes" ELSE InRange(created_date_to, created_date_from, t)

\* lines 95-104, one iteration: "yes" appends, "no" does not, "TypeError" raises
KeepTag(tag, created_date_to, created_date_from) ==
    LET t == tag_created_date(tag)
    IN  IF t = None THEN "no" ELSE InRange(created_date_to, created_date_from, t)

\* the loop with break in place of continue
RECURSIVE RangeLoopBreak(_, _, _, _, _)
RangeLoopBreak(repos_tags, i, acc, created_date_to, created_date_from) ==
    IF i > Len(repos_tags) THEN [exc |-> NoExc, tags |-> acc]
    ELSE IF tag_created_date(repos_tags[i]) = None THEN [exc |-> NoExc, tags |-> acc]
    ELSE LET k == KeepTag(repos_tags[i], created_date_to, created_date_from)
         IN  IF k = "TypeError" THEN [exc |-> "TypeError", tags |-> <<>>]
             ELSE RangeLoopBreak(repos_tags, i + 1,
                                 IF k = "yes" THEN Append(acc, repos_tags[i]) ELSE acc,
                                 created_date_to, created_date_from)

\* lines 92-106: the loop from index i with the list built so far
RECURSIVE RangeLoop(_, _, _, _, _)
RangeLoop(repos_tags, i, acc, created_date_to, created_date_from) ==
    IF i > Len(repos_tags) THEN [exc |-> NoExc, tags |-> acc]
    ELSE LET k == KeepTag(repos_tags[i], created_date_to, created_date_from)
         IN  IF k = "TypeError" THEN [exc |-> "TypeError", tags |-> <<>>]
             ELSE RangeLoop(repos_tags, i + 1,
                            IF k = "yes" THEN Append(acc, repos_tags[i]) ELSE acc,
                            created_date_to, created_date_from)

\* the function without the early return of lines 80-81
get_repos_tags_by_created_range_always(repos_tags, date_to, date_from) ==
    RangeLoop(repos_tags, 1, <<>>,
              IF date_to # None THEN date_to ELSE TsMax,
              IF date_from # None THEN date_from ELSE TsMin)

\* lines 78-106; the result is [exc, tags]: exc is NoExc when the call returns
\* tags, and names the exception when it raises
get_repos_tags_by_created_range(repos_tags, date_to, date_from) ==
    IF date_to = None /\ date_from = None
    THEN [exc |-> NoExc, tags |-> repos_tags]
    ELSE RangeLoop(repos_tags, 1, <<>>,
                   IF date_to # None THEN date_to ELSE TsMax,
                   IF date_from # None THEN date_from ELSE TsMin)

\* ---------------------------------------- get_repos_tags_by_name_regex_match

\* one pattern atom against one character: '.' matches any character
AtomMatches(a, c) == a = "." \/ a = c

\* the pattern matches s from position k+1 on
MatchAt(regex_str, s, k) ==
    /\ k + Len(regex_str) <= Len(s)
    /\ \A i \in 1..Len(regex_str) : AtomMatches(regex_str[i], s[k + i])

\* re.search: a match starting anywhere
re_search(regex_str, s) == \E k \in 0..Len(s) : MatchAt(regex_str, s, k)

\* re.match: a match starting at position 0
re_match(regex_str, s) == MatchAt(regex_str, s, 0)

\* lines 108-113
RECURSIVE get_repos_tags_by_name_regex_match(_, _)
get_repos_tags_by_name_regex_match(repos_tags, regex_str) ==
    IF repos_tags = <<>> THEN <<>>
    ELSE LET rest == get_repos_tags_by_name_regex_match(Tail(repos_tags), regex_str)
         IN  IF re_match(regex_str, Head(repos_tags).name)
             THEN <<Head(repos_tags)>> \o rest ELSE rest

\* ------------------------------------------------------- filter inputs

\* '2023-01-01T00:00:0', the first 18 characters of the created strings
Stamp18 ==
    <<"2", "0", "2", "3", "-", "0", "1", "-", "0", "1", "T",
      "0", "0", ":", "0", "0", ":", "0">>

\* '2023-01-01T00:00:01Z'
CreatedNoFraction == Stamp18 \o <<"1", "Z">>

\* '2023-01-01T00:00:02.5Z'
CreatedShortFraction == Stamp18 \o <<"2", ".", "5", "Z">>

\* '2023-01-01T00:00:02.5000009Z'
CreatedSevenDigits == Stamp18 \o <<"2", ".", "5", "0", "0", "0", "0", "0", "9", "Z">>

\* '2023-01-01T00:00:03.123456789Z'
CreatedNanos ==
    Stamp18 \o <<"3", ".", "1", "2", "3", "4", "5", "6", "7", "8", "9", "Z">>

\* 'bad'
CreatedMalformed == <<"b", "a", "d">>

\* '9999-01-01T00:00:00Z', beyond pd.Timestamp.max
CreatedOutOfBounds ==
    <<"9", "9", "9", "9", "-", "0", "1", "-", "0", "1", "T",
      "0", "0", ":", "0", "0", ":", "0", "0", "Z">>

\* 'v1.2'
NameV12 == <<"v", "1", ".", "2">>

\* 'p-v1'
NamePV1 == <<"p", "-", "v", "1">>

\* 'v2'
NameV2 == <<"v", "2">>

Tag(n, c) == [name |-> n, created |-> c]

FilterTags ==
    { Tag(NameV12, CreatedNoFraction), Tag(NamePV1, CreatedShortFraction),
      Tag(NameV2, CreatedSevenDigits), Tag(NameV12, CreatedNanos),
      Tag(NamePV1, CreatedMalformed), Tag(NameV2, CreatedOutOfBounds) }

\* 2023-01-01 00:00:01, 00:00:02.5, 00:00:02.5000005 and 00:00:03 UTC
FilterBounds ==
    { <<2023, 1, 1, 0, 0, 1, 0, 0>>, <<2023, 1, 1, 0, 0, 2, 500000, 0>>,
      <<2023, 1, 1, 0, 0, 2, 500000, 500>>, <<2023, 1, 1, 0, 0, 3, 0, 0>> }

\* 'v1', 'v.' and '-v'
FilterPatterns == { <<"v", "1">>, <<"v", ".">>, <<"-", "v">> }

SeqsUpTo(S, n) == UNION { [1..k -> S] : k \in 0..n }

\* ------------------------------------------------- the driver at rest

\* None where a str is expected (repo_name, proj_name)
NoneStr == "None"

Running == [kind |-> "running", status |-> 0, message |-> <<>>]

DriverIdle ==
    /\ args = [repository |-> NoneStr, project |-> NoneStr, regex |-> None,
               date_to |-> None, date_from |-> None]
    /\ registry = <<>>
    /\ pc = "idle"
    /\ repo_name = NoneStr
    /\ proj_id = 0
    /\ repos = <<>>
    /\ idx = 0
    /\ tags = <<>>
    /\ requests = <<>>
    /\ exit = Running
    /\ log = <<>>

\* ------------------------------------------------ the filters, applied

FilterInit ==
    /\ f_in \in SeqsUpTo(FilterTags, MaxTags)
    /\ f_date_to \in FilterBounds \cup {None}
    /\ f_date_from \in FilterBounds \cup {None}
    /\ f_regex \in FilterPatterns
    /\ f_res = [exc |-> NoExc, tags |-> f_in]
    /\ f_order = <<>>
    /\ DriverIdle

\* tags = get_repos_tags_by_created_range(tags, date_to, date_from)
ApplyCreatedRange ==
    /\ "range" \notin { f_order[i] : i \in 1..Len(f_order) }
    /\ f_res.exc = NoExc
    /\ f_res' = get_repos_tags_by_created_range(f_res.tags, f_date_to, f_date_from)
    /\ f_order' = Append(f_order, "range")
    /\ UNCHANGED <<f_in, f_date_to, f_date_from, f_regex, d_vars>>

\* tags = get_repos_tags_by_name_regex_match(tags, regex_str)
ApplyNameRegex ==
    /\ "regex" \notin { f_order[i] : i \in 1..Len(f_order) }
    /\ f_res.exc = NoExc
    /\ f_res' = [exc |-> NoExc,
                 tags |-> get_repos_tags_by_name_regex_match(f_res.tags, f_regex)]
    /\ f_order' = Append(f_order, "regex")
    /\ UNCHANGED <<f_in, f_date_to, f_date_from, f_regex, d_vars>>

FilterNext == ApplyCreatedRange \/ ApplyNameRegex

FilterSpec == FilterInit /\ [][FilterNext]_vars

\* ------------------------------------------------ claims on the filters

Elems(s) == { s[i] : i \in 1..Len(s) }

Parsable(tag) == tag_created_date(tag) # None

\* dateFrom <= t < dateTo, an absent bound being no constraint
InWindow(t) ==
    /\ f_date_from = None \/ f_date_from = t \/ TsLess(f_date_from, t)
    /\ f_date_to = None \/ TsLess(t, f_date_to)

BoundGiven == f_date_to # None \/ f_date_from # None

\* C1: with at least one bound given, the time-window filter keeps a tag whose
\* created time parses if and only if dateFrom <= created < dateTo, created
\* being the instant parsed from the tag; an absent bound does not constrain.
C1_HalfOpenWindow ==
    (f_order = <<"range">> /\ BoundGiven) =>
        /\ f_res.exc = NoExc
        /\ \A i \in 1..Len(f_in) :
               Parsable(f_in[i]) =>
                   (f_in[i] \in Elems(f_res.tags) <=> InWindow(tag_created_date(f_in[i])))

\* a tag created exactly at dateFrom was kept and one created exactly at dateTo
\* was dropped
C1_Witness ==
    /\ f_order = <<"range">>
    /\ f_date_to # None /\ f_date_from # None
    /\ \E i, j \in 1..Len(f_in) :
           /\ tag_created_date(f_in[i]) = f_date_from
           /\ f_in[i] \in Elems(f_res.tags)
           /\ tag_created_date(f_in[j]) = f_date_to
           /\ f_in[j] \notin Elems(f_res.tags)

\* C2 as stated: whatever the bounds, also with both absent, the time-window
\* filter returns without raising and its result holds no tag whose created
\* field does not parse.
C2_UnparsableAlwaysExcluded ==
    (f_order # <<>> /\ f_order[Len(f_order)] = "range") =>
        /\ f_res.exc = NoExc
        /\ \A i \in 1..Len(f_res.tags) : Parsable(f_res.tags[i])

\* C2 amended: when at least one bound is given, the time-window filter
\* returns without raising and its result holds no tag whose created field
\* does not parse.
C2_UnparsableExcludedWhenBounded ==
    (f_order # <<>> /\ f_order[Len(f_order)] = "range" /\ BoundGiven) =>
        /\ f_res.exc = NoExc
        /\ \A i \in 1..Len(f_res.tags) : Parsable(f_res.tags[i])

\* a malformed and an out-of-bounds created were both dropped under a bound
C2_Witness ==
    /\ f_order = <<"range">>
    /\ BoundGiven
    /\ \E i, j \in 1..Len(f_in) :
           /\ f_in[i].created = CreatedMalformed
           /\ f_in[j].created = CreatedOutOfBounds
    /\ f_res = [exc |-> NoExc, tags |-> <<>>]

\* C3: with dateTo and dateFrom both absent the time-window filter returns
\* exactly its input list: the same tags in the same order.
C3_IdentityWithoutBounds ==
    (f_order = <<"range">> /\ ~BoundGiven) => f_res = [exc |-> NoExc, tags |-> f_in]

\* the input returned unchanged holds a tag that parses and one that does not
C3_Witness ==
    /\ f_order = <<"range">>
    /\ ~BoundGiven
    /\ Len(f_in) = 2
    /\ Parsable(f_in[1]) /\ ~Parsable(f_in[2])
    /\ f_res.tags = f_in

\* the pattern matches a prefix of name
MatchesPrefix(pattern, name) ==
    \E k \in 0..Len(name) :
        /\ Len(pattern) = k
        /\ \A i \in 1..k : pattern[i] = "." \/ pattern[i] = name[i]

\* the pattern matches name[k+1 ..] for some k >= 1
OccursLater(pattern, name) ==
    \E k \in 1..Len(name) : MatchesPrefix(pattern, SubSeq(name, k + 1, Len(name)))

\* C4: the name filter keeps exactly the tags whose name the pattern matches
\* from position 0, in their input order; a name the pattern matches only
\* further on is not selected.
C4_PrefixMatchInOrder ==
    f_order = <<"regex">> =>
        LET Keep(tag) == MatchesPrefix(f_regex, tag.name)
        IN  /\ f_res.tags = SelectSeq(f_in, Keep)
            /\ \A i \in 1..Len(f_in) :
                   (~Keep(f_in[i]) /\ OccursLater(f_regex, f_in[i].name))
                       => f_in[i] \notin Elems(f_res.tags)

\* 'v1' kept 'v1.2', which it matches as a proper prefix, and dropped 'p-v1',
\* where it occurs at position 2
C4_Witness ==
    /\ f_order = <<"regex">>
    /\ f_regex = <<"v", "1">>
    /\ Len(f_in) = 2
    /\ f_in[1].name = NamePV1 /\ f_in[2].name = NameV12
    /\ f_res.tags = <<f_in[2]>>

\* C5: the filters commute: the name filter after the time-window filter gives
\* the list that the time-window filter after the name filter gives, for every
\* tag list, pattern and pair of bounds, absent bounds included.
C5_FiltersCommute ==
    /\ f_order = <<"regex", "range">> =>
           /\ f_res.exc = NoExc
           /\ f_res.tags =
                  get_repos_tags_by_name_regex_match(
                      get_repos_tags_by_created_range(f_in, f_date_to, f_date_from).tags,
                      f_regex)
    /\ f_order = <<"range", "regex">> =>
           f_res =
               get_repos_tags_by_created_range(
                   get_repos_tags_by_name_regex_match(f_in, f_regex),
                   f_date_to, f_date_from)

\* name filter first, then a bounded time window: the name filter dropped a
\* tag that does not parse and the window kept the tag after it
C5_Witness ==
    /\ f_order = <<"regex", "range">>
    /\ BoundGiven
    /\ Len(f_in) = 2
    /\ ~Parsable(f_in[1]) /\ ~MatchesPrefix(f_regex, f_in[1].name)
    /\ f_res.tags = <<f_in[2]>>

\* ------------------------------------------------------- HarborClient

\* a Python value that is a str, and two that are not
PyStr(s) == [isstr |-> TRUE, text |-> s]

PyNone == [isstr |-> FALSE, text |-> "None"]

PyInt == [isstr |-> FALSE, text |-> "int"]

\* response_status.get(code)
response_status_get(code) ==
    CASE code = 200 -> PyStr("successfully.")
      [] code = 400 -> PyStr("Invalid.")
      [] code = 401 -> PyStr("Unauthorized.")
      [] code = 403 -> PyStr("Forbidden.")
      [] code = 404 -> PyStr("Not found.")
      [] OTHER -> PyNone

\* resp.json() is null or a list; resp.text is the raw body
JsonNull == [kind |-> "null", items |-> <<>>]

JsonList(l) == [kind |-> "list", items |-> l]

RawText == [kind |-> "text", items |-> <<>>]

get_project_by_project_name(resp) ==
    [success |-> resp.status_code = 200,
     message |-> response_status_get(resp.status_code),
     data    |-> IF resp.status_code = 200 THEN resp.json ELSE RawText]

get_repos_by_project_id(resp) ==
    [success |-> resp.status_code = 200,
     message |-> response_status_get(resp.status_code),
     data    |-> IF resp.status_code = 200 THEN resp.json ELSE RawText]

get_tags_by_repos(resp) ==
    [success |-> resp.status_code = 200,
     message |-> response_status_get(resp.status_code),
     data    |-> IF resp.status_code = 200 THEN resp.json ELSE RawText]

delete_image_by_tag_name(resp) ==
    [success |-> resp.status_code = 200,
     message |-> response_status_get(resp.status_code)]

\* ------------------------------------------------- the remote registry

StatusCodes == {200, 400, 401, 403, 404, 500}

AllRepos == <<"r1", "r2", "r3">>

RepoNames == { AllRepos[i] : i \in 1..MaxRepos }

DriverTagA == Tag(NameV12, CreatedNoFraction)

DriverTagB == Tag(NamePV1, CreatedShortFraction)

DriverTagC == Tag(NameV12, CreatedMalformed)

RepoTagLists ==
    { <<>>, <<DriverTagA, DriverTagB>>, <<DriverTagB, DriverTagC>>, <<DriverTagA>> }

Failures == { [status_code |-> c, json |-> JsonNull] : c \in StatusCodes \ {200} }

Ok(json) == [status_code |-> 200, json |-> json]

\* what GET /api/projects?name= can answer
ProjectResponses ==
    Failures \cup { Ok(JsonNull), Ok(JsonList(<<>>)), Ok(JsonList(<<[project_id |-> 1]>>)) }

\* what GET /api/repositories/?project_id= can answer
ReposResponses ==
    Failures \cup { Ok(JsonNull) }
        \cup { Ok(JsonList([i \in 1..k |-> [name |-> AllRepos[i]]])) : k \in 0..MaxRepos }

\* what GET /api/repositories/<repo>/tags can answer
TagsResponses(repo) == Failures \cup { Ok(JsonNull), Ok(JsonList(registry[repo])) }

\* what DELETE /api/repositories/<repo>/tags/<tag> can answer
DeleteResponses == { [status_code |-> c, json |-> JsonNull] : c \in {200, 403, 404, 500} }

Request(op, target, tag, resp) ==
    [op |-> op, target |-> target, tag |-> tag, status |-> resp.status_code,
     data |-> IF resp.status_code = 200 THEN resp.json ELSE RawText]

\* ------------------------------------------------------------ __main__

\* sys.exit(prefix + operand): the concatenation raises TypeError unless the
\* operand is a str; either way the process ends with status 1
sys_exit(prefix, operand) ==
    IF operand.isstr
    THEN [kind |-> "sys.exit", status |-> 1, message |-> <<prefix, operand.text>>]
    ELSE [kind |-> "TypeError", status |-> 1, message |-> <<>>]

\* an uncaught exception ends the process with status 1
uncaught(exc) == [kind |-> exc, status |-> 1, message |-> <<>>]

\* the checks after a lookup that let a failed lookup pass
CheckResultIgnoreFailure(result, failed, not_found, operand) ==
    IF result.success /\ result.data = JsonNull THEN sys_exit(not_found, operand)
    ELSE Running

\* the checks after a lookup: not success, then data is None
CheckResult(result, failed, not_found, operand) ==
    IF ~result.success THEN sys_exit(failed, result.message)
    ELSE IF result.data = JsonNull THEN sys_exit(not_found, operand)
    ELSE Running

\* tags accumulated over the repositories
TagsAssignedAccumulate(old, result) == old \o result.data.items

\* tags = tags_result['data']
TagsAssigned(old, result) == result.data.items

Stop(e) ==
    /\ exit' = e
    /\ pc' = "done"

DriverInit ==
    /\ args \in [repository : {NoneStr, "r1"},
                 project    : {NoneStr, "proj"},
                 regex      : {None, <<"v", "1">>},
                 date_to    : {None, StrArg, <<2023, 1, 1, 0, 0, 2, 500000, 0>>},
                 date_from  : {None, StrArg}]
    /\ registry \in [RepoNames -> RepoTagLists]
    /\ pc = "start"
    /\ repo_name = args.repository
    /\ proj_id = 0
    /\ repos = <<>>
    /\ idx = 0
    /\ tags = <<>>
    /\ requests = <<>>
    /\ exit = Running
    /\ log = <<>>
    /\ f_in = <<>> /\ f_date_to = None /\ f_date_from = None /\ f_regex = None
    /\ f_res = [exc |-> NoExc, tags |-> <<>>] /\ f_order = <<>>

\* lines 206-215: --repository given
GetTagsOfRepository ==
    /\ pc = "start"
    /\ repo_name # NoneStr
    /\ \E resp \in TagsResponses(repo_name) :
         LET tags_result == get_tags_by_repos(resp)
             e == CheckResult(tags_result, "Get tags information failed!, ",
                              "Not found repository name: ", PyStr(repo_name))
         IN  /\ requests' = Append(requests, Request("get_tags", repo_name, <<>>, resp))
             /\ IF e # Running
                THEN Stop(e) /\ UNCHANGED tags
                ELSE /\ tags' = TagsAssigned(tags, tags_result)
                     /\ pc' = "filter"
                     /\ UNCHANGED exit
    /\ UNCHANGED <<args, registry, repo_name, proj_id, repos, idx, log, f_vars>>

\* lines 217-226: --project given and no --repository
GetProject ==
    /\ pc = "start"
    /\ repo_name = NoneStr
    /\ args.project # NoneStr
    /\ \E resp \in ProjectResponses :
         LET proj_result == get_project_by_project_name(resp)
             e == CheckResult(proj_result, "Get project information failed!, ",
                              "Not found project name: ", PyStr(args.project))
         IN  /\ requests' = Append(requests, Request("get_project", args.project, <<>>, resp))
             /\ IF e # Running
                THEN Stop(e) /\ UNCHANGED proj_id
                ELSE IF proj_result.data.items = <<>>
                THEN Stop(uncaught("IndexError")) /\ UNCHANGED proj_id
                ELSE /\ proj_id' = proj_result.data.items[1].project_id
                     /\ pc' = "get_repos"
                     /\ UNCHANGED exit
    /\ UNCHANGED <<args, registry, repo_name, repos, idx, tags, log, f_vars>>

\* lines 228-236, and line 237 when repos is empty
GetRepositories ==
    /\ pc = "get_repos"
    /\ \E resp \in ReposResponses :
         LET repos_result == get_repos_by_project_id(resp)
             e == CheckResult(repos_result, "Get repository information failed!, ",
                              "Not found project id: ", PyInt)
         IN  /\ requests' = Append(requests, Request("get_repos", "project_id", <<>>, resp))
             /\ IF e # Running
                THEN Stop(e) /\ UNCHANGED <<repos, idx>>
                ELSE /\ repos' = repos_result.data.items
                     /\ idx' = 1
                     /\ pc' = IF repos' = <<>> THEN "filter" ELSE "loop"
                     /\ UNCHANGED exit
    /\ UNCHANGED <<args, registry, repo_name, proj_id, tags, log, f_vars>>

\* lines 237-248: one iteration of the loop over repos
GetTagsInLoop ==
    /\ pc = "loop"
    /\ idx <= Len(repos)
    /\ repo_name' = repos[idx].name
    /\ \E resp \in TagsResponses(repo_name') :
         LET tags_result == get_tags_by_repos(resp)
             e == CheckResult(tags_result, "Get tags information failed!, ",
                              "Not found repository name: ", PyStr(repo_name'))
         IN  /\ requests' = Append(requests, Request("get_tags", repo_name', <<>>, resp))
             /\ IF e # Running
                THEN Stop(e) /\ UNCHANGED <<tags, idx>>
                ELSE /\ tags' = TagsAssigned(tags, tags_result)
                     /\ idx' = idx + 1
                     /\ pc' = IF idx' > Len(repos) THEN "filter" ELSE "loop"
                     /\ UNCHANGED exit
    /\ UNCHANGED <<args, registry, proj_id, repos, log, f_vars>>

\* neither --repository nor --project: lines 206 and 217 both skip
NoSource ==
    /\ pc = "start"
    /\ repo_name = NoneStr
    /\ args.project = NoneStr
    /\ pc' = "filter"
    /\ UNCHANGED <<args, registry, repo_name, proj_id, repos, idx, tags, requests,
                   exit, log, f_vars>>

\* the process ends with status 0 when the loop of line 255 has nothing left
EndOr(next_pc, remaining) ==
    IF remaining
    THEN pc' = next_pc /\ UNCHANGED exit
    ELSE Stop([kind |-> "end", status |-> 0, message |-> <<>>])

\* lines 250-253
Filter ==
    /\ pc = "filter"
    /\ LET ranged == get_repos_tags_by_created_range(tags, args.date_to, args.date_from)
       IN  IF ranged.exc # NoExc
           THEN Stop(uncaught(ranged.exc)) /\ UNCHANGED <<tags, idx>>
           ELSE /\ tags' = IF args.regex # None
                           THEN get_repos_tags_by_name_regex_match(ranged.tags, args.regex)
                           ELSE ranged.tags
                /\ idx' = 1
                /\ EndOr("delete", tags' # <<>>)
    /\ UNCHANGED <<args, registry, repo_name, proj_id, repos, requests, log, f_vars>>

LogRecord(result) ==
    IF result.success
    THEN [level |-> "info", text |-> <<"success delete it.">>]
    ELSE [level |-> "warning", text |-> <<"delete failed!, message: ", result.message.text>>]

\* the loop body with a failed delete ending the run
DeleteTagStopOnFailure ==
    /\ pc = "delete"
    /\ idx <= Len(tags)
    /\ \E resp \in DeleteResponses :
         LET result == delete_image_by_tag_name(resp)
         IN  /\ requests' = Append(requests, Request("delete", repo_name, tags[idx].name, resp))
             /\ log' = Append(log, LogRecord(result))
             /\ idx' = idx + 1
             /\ EndOr("delete", result.success /\ idx' <= Len(tags))
    /\ UNCHANGED <<args, registry, repo_name, proj_id, repos, tags, f_vars>>

\* lines 255-260: one iteration of the loop over tags
DeleteTag ==
    /\ pc = "delete"
    /\ idx <= Len(tags)
    /\ \E resp \in DeleteResponses :
         LET result == delete_image_by_tag_name(resp)
         IN  /\ requests' = Append(requests, Request("delete", repo_name, tags[idx].name, resp))
             /\ log' = Append(log, LogRecord(result))
             /\ idx' = idx + 1
             /\ EndOr("delete", idx' <= Len(tags))
    /\ UNCHANGED <<args, registry, repo_name, proj_id, repos, tags, f_vars>>

DriverNext ==
    \/ GetTagsOfRepository
    \/ GetProject
    \/ GetRepositories
    \/ GetTagsInLoop
    \/ NoSource
    \/ Filter
    \/ DeleteTag

Spec == DriverInit /\ [][DriverNext]_vars

\* ------------------------------------------------- claims on the driver

IsLookup(r) == r.op \in {"get_project", "get_repos", "get_tags"}

IsDelete(r) == r.op = "delete"

Deletes == SelectSeq(requests, IsDelete)

ProjectMode == args.repository = NoneStr /\ args.project # NoneStr

\* C6: a phase-1 lookup answered with a non-200 status is the last request of
\* the run: the run has ended there with a non-zero exit status, so no later
\* lookup and no delete follows it.
C6_FailedLookupStopsRun ==
    \A i \in 1..Len(requests) :
        (IsLookup(requests[i]) /\ requests[i].status # 200) =>
            /\ i = Len(requests)
            /\ pc = "done"
            /\ exit.status # 0
            /\ Deletes = <<>>

\* project mode: the tag lookup of the second repository failed after three
\* successful lookups
C6_Witness ==
    /\ ProjectMode
    /\ Len(requests) = 4
    /\ requests[4].op = "get_tags" /\ requests[4].target = "r2"
    /\ requests[4].status = 404
    /\ requests[3].status = 200
    /\ pc = "done" /\ exit.status = 1

\* C7 as stated: after a phase-1 lookup answered with a non-200 status,
\* whatever the code, the run has ended through an exit message that embeds
\* the message of the result envelope; for 404 that is "Not found.".
C7_ExitMessageEmbedsEnvelopeMessage ==
    \A i \in 1..Len(requests) :
        (IsLookup(requests[i]) /\ requests[i].status # 200) =>
            /\ exit.kind = "sys.exit"
            /\ Len(exit.message) = 2
            /\ exit.message[2] = response_status_get(requests[i].status).text
            /\ requests[i].status = 404 => exit.message[2] = "Not found."

\* C8 as stated, its exit part: once a lookup was answered 200 with an empty
\* list (of projects, of repositories or of tags), the run ends like a failed
\* lookup, with a fatal non-zero exit, and issues no delete request.
C8_EmptyPayloadIsFatal ==
    (/\ pc = "done"
     /\ \E i \in 1..Len(requests) :
            /\ IsLookup(requests[i])
            /\ requests[i].status = 200
            /\ requests[i].data = JsonList(<<>>)) =>
        /\ exit.status # 0
        /\ Deletes = <<>>

\* C9: in phase 3 the delete requests issued so far are exactly one per
\* surviving tag, in list order and addressed to repo_name, whatever the
\* earlier responses were; each failed delete logged a warning carrying the
\* mapped message; when the list is exhausted the run ends with status 0.
C9_OneDeletePerTag ==
    /\ Deletes # <<>> => pc \in {"delete", "done"}
    /\ (pc = "delete" \/ (pc = "done" /\ exit.kind = "end")) =>
           /\ Len(Deletes) = (IF pc = "delete" THEN idx - 1 ELSE Len(tags))
           /\ Len(log) = Len(Deletes)
           /\ \A i \in 1..Len(Deletes) :
                  /\ Deletes[i].target = repo_name
                  /\ Deletes[i].tag = tags[i].name
                  /\ Deletes[i].status # 200 =>
                         /\ log[i].level = "warning"
                         /\ log[i].text[2] = response_status_get(Deletes[i].status).text
                  /\ Deletes[i].status = 200 => log[i].level = "info"
    /\ pc = "delete" => exit = Running /\ idx <= Len(tags)
    /\ (pc = "done" /\ Deletes # <<>>) => (exit.kind = "end" /\ exit.status = 0)

\* two tags survived; the first delete was answered 403 and logged with
\* "Forbidden.", the second was still issued, and the run ended with status 0
C9_Witness ==
    /\ pc = "done"
    /\ exit.status = 0
    /\ Len(tags) = 2
    /\ Len(Deletes) = 2
    /\ Deletes[1].status = 403
    /\ log[1] = [level |-> "warning", text |-> <<"delete failed!, message: ", "Forbidden.">>]
    /\ Deletes[2].tag = tags[2].name

LastRepo == repos[Len(repos)].name

\* C10: in project mode with several repositories, the tag list handed to the
\* filters is the tag list of the last repository, and every delete request is
\* addressed to that repository with a tag name of its list.
C10_LastRepositoryOnly ==
    (ProjectMode /\ Len(repos) >= 2) =>
        /\ pc = "filter" => (tags = registry[LastRepo] /\ repo_name = LastRepo)
        /\ \A i \in 1..Len(Deletes) :
               /\ Deletes[i].target = LastRepo
               /\ \E j \in 1..Len(registry[LastRepo]) :
                      Deletes[i].tag = registry[LastRepo][j].name

\* two repositories, the first with tags of its own: the run has ended after a
\* delete sent to the second
C10_Witness ==
    /\ ProjectMode
    /\ Len(repos) = 2
    /\ registry["r1"] = <<DriverTagA, DriverTagB>>
    /\ registry["r2"] = <<DriverTagB, DriverTagC>>
    /\ pc = "done"
    /\ Deletes # <<>>
    /\ Deletes[1].target = "r2"

====
